---- MODULE Spec2Model ----
(***************************************************************************)
(* State-machine model of tensor2struct/datasets/spider.py:                *)
(*   load_tables            (schema graph construction, lines 50-119)      *)
(*   SpiderDataset.__init__ (example loading, lines 124-141)               *)
(*   SpiderDataset.Metrics  (verdict recording, lines 149-206)             *)
(*                                                                         *)
(* Python object references (Column.table, Table.columns, ...) are         *)
(* modelled by the referenced object's id, which is its position in the    *)
(* schema's tables / columns tuple.  Optional references are sequences of  *)
(* length 0 (None) or 1.  Display names and column types are carried by no *)
(* control flow of the file and are left out of the records.               *)
(***************************************************************************)
EXTENDS Integers, Sequences, FiniteSets, TLC

\* ------------------------------------------------------------------ bounds
\* most tables of one schema descriptor
MaxTables == 2
\* most columns of one schema descriptor
MaxCols == 2
\* most entries of primary_keys and foreign_keys together, per descriptor
MaxKeys == 2
\* most files of one path list (tables_paths, paths)
MaxPaths == 2
\* most schema descriptors of one schema file
MaxDicts == 2
\* most example records of all example files together
MaxExamples == 3
\* most candidates of one beam
MaxBeam == 3
\* most record calls (add_one, add_beams) on one Metrics object
MaxCalls == 2

DbIds == { "d1", "d2" }

None == << >>
Some(x) == << x >>

\* ------------------------------------------------------------ python lists
\* Python's seq[i] on a sequence of length n: 0 <= i < n is position i,
\* -n <= i < 0 counts from the end, anything else raises IndexError.
InRange(n, i) == (-n <= i) /\ (i < n)

Resolve(n, i) == IF i < 0 THEN n + i ELSE i

\* Index values a descriptor of n columns carries in the model: 0 .. n-1,
\* the first index past the end, the negative index Python resolves to the
\* last element, and the first negative index Python does not resolve.
IndexValues(n) == (0 .. n) \cup { -1, -(n + 1) }

RECURSIVE SeqsUpTo(_, _)
SeqsUpTo(S, n) ==
    IF n = 0 THEN { << >> }
    ELSE LET shorter == SeqsUpTo(S, n - 1)
         IN  shorter \cup { Append(s, x) : s \in { t \in shorter : Len(t) = n - 1 }, x \in S }

RECURSIVE Flatten(_)
Flatten(seqs) == IF seqs = << >> THEN << >> ELSE Head(seqs) \o Flatten(Tail(seqs))

Elements(seq) == { seq[i] : i \in 1 .. Len(seq) }

NoRepeat(seq) == \A i, j \in 1 .. Len(seq) : seq[i] = seq[j] => i = j

\* Python dict, insertion ordered: a sequence of key/value entries.
HasKey(map, k) == \E i \in 1 .. Len(map) : map[i].key = k

Keys(map) == { map[i].key : i \in 1 .. Len(map) }

Values(map) == { map[i].value : i \in 1 .. Len(map) }

Get(map, k) == (CHOOSE e \in { map[i] : i \in 1 .. Len(map) } : e.key = k).value

Put(map, k, v) ==
    IF HasKey(map, k)
    THEN [ i \in 1 .. Len(map) |-> IF map[i].key = k THEN [ key |-> k, value |-> v ] ELSE map[i] ]
    ELSE Append(map, [ key |-> k, value |-> v ])

\* ------------------------------------------------------------------- state
VARIABLES
    limits,                 \* sizes of the inputs of this run, fixed by Init
    pc,                     \* position in load_tables
    error,                  \* None, or the exception that ended load_tables
    path_idx,               \* number of schema files opened
    dict_idx,               \* number of descriptors read from the open file
    seen_ids,               \* db ids of the descriptors read, per file
    schema_dict,            \* the descriptor being processed, as read so far
    tables,                 \* local `tables` of load_tables
    columns,                \* local `columns` of load_tables
    foreign_key_graph,      \* local `foreign_key_graph` of load_tables
    schemas,                \* local `schemas`: db id -> Schema
    eval_foreign_key_maps,  \* local `eval_foreign_key_maps`
    returned,               \* None, or the pair load_tables returned
    bad_index               \* a key index read from the descriptor is outside 0 .. n-1

VARIABLES
    d_pc,                   \* position in SpiderDataset.__init__
    d_error,                \* None, or the exception that ended __init__
    self_schemas,           \* self.schemas
    self_eval_foreign_key_maps,
    examples,               \* self.examples
    example_path_idx,       \* number of example files opened
    entries_read            \* the records read, per example file

VARIABLES
    results,                \* Metrics.results
    scores,                 \* state of the external evaluator
    report,                 \* None, or what the last finalize() returned
    calls,                  \* number of add_one / add_beams calls made
    calls_ok,               \* number of them that returned
    last_call,              \* the arguments and outcome of the last call
    eval_log                \* evaluator methods invoked by the last call

loadVars == << limits, pc, error, path_idx, dict_idx, seen_ids, schema_dict, tables,
               columns, foreign_key_graph, schemas, eval_foreign_key_maps, returned,
               bad_index >>

\* ------------------------------------------------------------ data classes
Column(i, table) == [ id |-> i, table |-> table, foreign_key_for |-> None ]

Table(i) == [ id |-> i, columns |-> << >>, primary_keys |-> << >> ]

Schema(db_id, tbls, cols, graph, orig) ==
    [ db_id |-> db_id, tables |-> tbls, columns |-> cols,
      foreign_key_graph |-> graph, orig |-> orig ]

\* networkx.DiGraph: at most one edge per ordered node pair; add_edge on an
\* existing pair overwrites the edge's attributes.
EmptyDiGraph == { }

AddEdge(g, u, v, cols) ==
    { e \in g : ~(e.u = u /\ e.v = v) } \cup { [ u |-> u, v |-> v, columns |-> cols ] }

\* evaluation.build_foreign_key_map(schema_dict): an opaque value computed
\* from the raw descriptor.
build_foreign_key_map(d) == [ of |-> d.db_id, foreign_keys |-> d.foreign_keys ]

EmptyDict == [ db_id |-> "", num_tables |-> 0, column_names |-> << >>,
               primary_keys |-> << >>, foreign_keys |-> << >> ]

\* -------------------------------------------------------------- load_tables
\* lines 57-62: one Table per table name, id = position
BuildTables(n) == [ i \in 1 .. n |-> Table(i - 1) ]

\* lines 63-83: one Column per column descriptor; a negative table index
\* gives table None (tables[table_id] is read only when table_id >= 0).
BuildColumns(column_names) ==
    [ i \in 1 .. Len(column_names) |->
        Column(i - 1, IF column_names[i] >= 0 THEN Some(column_names[i]) ELSE None) ]

\* LinkColumns with each column put at the front of its table's list
RECURSIVE LinkColumnsFront(_, _, _)
LinkColumnsFront(tbls, cols, k) ==
    IF k > Len(cols) THEN tbls
    ELSE LET c == cols[k]
         IN  IF c.table = None THEN LinkColumnsFront(tbls, cols, k + 1)
             ELSE LinkColumnsFront(
                    [ tbls EXCEPT ![c.table[1] + 1].columns = << c.id >> \o @ ],
                    cols, k + 1)

\* lines 86-88: append every owned column, from column k on, to its table
RECURSIVE LinkColumns(_, _, _)
LinkColumns(tbls, cols, k) ==
    IF k > Len(cols) THEN tbls
    ELSE LET c == cols[k]
         IN  IF c.table = None THEN LinkColumns(tbls, cols, k + 1)
             ELSE LinkColumns(
                    [ tbls EXCEPT ![c.table[1] + 1].columns = Append(@, c.id) ],
                    cols, k + 1)

\* lines 92-93 for a column_id that resolves to an owned column
WithPrimaryKey(tbls, cols, column_id) ==
    LET column == cols[Resolve(Len(cols), column_id) + 1]
    IN  [ tbls EXCEPT ![column.table[1] + 1].primary_keys = Append(@, column.id) ]

\* WithForeignKey keeping the target a source column already has
WithForeignKeyFirst(cols, source_column_id, dest_column_id) ==
    LET s == Resolve(Len(cols), source_column_id) + 1
        d == Resolve(Len(cols), dest_column_id) + 1
    IN  IF cols[s].foreign_key_for = None
        THEN [ cols EXCEPT ![s].foreign_key_for = Some(cols[d].id) ]
        ELSE cols

\* lines 98-100 for column ids that resolve
WithForeignKey(cols, source_column_id, dest_column_id) ==
    LET s == Resolve(Len(cols), source_column_id) + 1
        d == Resolve(Len(cols), dest_column_id) + 1
    IN  [ cols EXCEPT ![s].foreign_key_for = Some(cols[d].id) ]

\* lines 101-110 for column ids that resolve to owned columns
WithForeignKeyEdges(g, cols, source_column_id, dest_column_id) ==
    LET source_column == cols[Resolve(Len(cols), source_column_id) + 1]
        dest_column == cols[Resolve(Len(cols), dest_column_id) + 1]
    IN  AddEdge(
          AddEdge(g, source_column.table[1], dest_column.table[1],
                  << source_column_id, dest_column_id >>),
          dest_column.table[1], source_column.table[1],
          << dest_column_id, source_column_id >>)

InitLoad(lim) ==
    /\ limits = lim
    /\ pc = "paths"
    /\ error = None
    /\ path_idx = 0
    /\ dict_idx = 0
    /\ seen_ids = << >>
    /\ schema_dict = EmptyDict
    /\ tables = << >>
    /\ columns = << >>
    /\ foreign_key_graph = EmptyDiGraph
    /\ schemas = << >>
    /\ eval_foreign_key_maps = << >>
    /\ returned = None
    /\ bad_index = FALSE

Raise(e) ==
    /\ pc' = "raised"
    /\ error' = Some(e)

\* lines 54-55: the next path of `paths` is opened and parsed
OpenPath ==
    /\ pc = "paths"
    /\ path_idx < limits.paths
    /\ path_idx' = path_idx + 1
    /\ dict_idx' = 0
    /\ seen_ids' = Append(seen_ids, << >>)
    /\ pc' = "dicts"
    /\ UNCHANGED << limits, error, schema_dict, tables, columns, foreign_key_graph,
                    schemas, eval_foreign_key_maps, returned, bad_index >>

\* line 56: the open file has no further descriptor
EndOfFile ==
    /\ pc = "dicts"
    /\ pc' = "paths"
    /\ UNCHANGED << limits, error, path_idx, dict_idx, seen_ids, schema_dict, tables,
                    columns, foreign_key_graph, schemas, eval_foreign_key_maps,
                    returned, bad_index >>

\* lines 56-88: the next descriptor of the file is read; tables and columns
\* are built and linked.  tables[table_id] raises IndexError when table_id
\* is at least the number of tables.
BuildTablesAndColumns(db_id, num_tables, column_names) ==
    /\ pc = "dicts"
    /\ dict_idx < limits.dicts
    /\ dict_idx' = dict_idx + 1
    /\ seen_ids' = [ seen_ids EXCEPT ![path_idx] = Append(@, db_id) ]
    /\ schema_dict' = [ db_id |-> db_id, num_tables |-> num_tables,
                        column_names |-> column_names,
                        primary_keys |-> << >>, foreign_keys |-> << >> ]
    /\ bad_index' = FALSE
    /\ IF \E i \in 1 .. Len(column_names) : column_names[i] >= num_tables
       THEN /\ Raise("IndexError")
            /\ UNCHANGED << tables, columns >>
       ELSE /\ columns' = BuildColumns(column_names)
            /\ tables' = LinkColumns(BuildTables(num_tables), BuildColumns(column_names), 1)
            /\ pc' = "primary_keys"
            /\ UNCHANGED error
    /\ UNCHANGED << limits, path_idx, foreign_key_graph, schemas, eval_foreign_key_maps,
                    returned >>

KeysRead == Len(schema_dict.primary_keys) + Len(schema_dict.foreign_keys)

\* lines 90-93: one entry of schema_dict["primary_keys"]
RegisterPrimaryKey(column_id) ==
    /\ pc = "primary_keys"
    /\ KeysRead < limits.keys
    /\ bad_index' = (bad_index \/ column_id < 0 \/ column_id >= Len(columns))
    /\ IF ~InRange(Len(columns), column_id)
       THEN /\ Raise("IndexError")
            /\ UNCHANGED << tables, schema_dict >>
       ELSE IF columns[Resolve(Len(columns), column_id) + 1].table = None
            THEN /\ Raise("AttributeError")
                 /\ UNCHANGED << tables, schema_dict >>
            ELSE /\ tables' = WithPrimaryKey(tables, columns, column_id)
                 /\ schema_dict' = [ schema_dict EXCEPT !.primary_keys = Append(@, column_id) ]
                 /\ UNCHANGED << pc, error >>
    /\ UNCHANGED << limits, path_idx, dict_idx, seen_ids, columns, foreign_key_graph,
                    schemas, eval_foreign_key_maps, returned >>

\* line 95: primary_keys is exhausted; the graph is created
EndPrimaryKeys ==
    /\ pc = "primary_keys"
    /\ pc' = "foreign_keys"
    /\ foreign_key_graph' = EmptyDiGraph
    /\ UNCHANGED << limits, error, path_idx, dict_idx, seen_ids, schema_dict, tables,
                    columns, schemas, eval_foreign_key_maps, returned, bad_index >>

\* lines 96-110: one pair of schema_dict["foreign_keys"].  Line 100 has
\* already run when .table.id fails on an ownerless column.
RegisterForeignKey(source_column_id, dest_column_id) ==
    /\ pc = "foreign_keys"
    /\ KeysRead < limits.keys
    /\ bad_index' = (\/ bad_index
                     \/ source_column_id < 0 \/ source_column_id >= Len(columns)
                     \/ dest_column_id < 0 \/ dest_column_id >= Len(columns))
    /\ IF ~InRange(Len(columns), source_column_id) \/ ~InRange(Len(columns), dest_column_id)
       THEN /\ Raise("IndexError")
            /\ UNCHANGED << columns, foreign_key_graph, schema_dict >>
       ELSE IF \/ columns[Resolve(Len(columns), source_column_id) + 1].table = None
               \/ columns[Resolve(Len(columns), dest_column_id) + 1].table = None
            THEN /\ Raise("AttributeError")
                 /\ columns' = WithForeignKey(columns, source_column_id, dest_column_id)
                 /\ UNCHANGED << foreign_key_graph, schema_dict >>
            ELSE /\ columns' = WithForeignKey(columns, source_column_id, dest_column_id)
                 /\ foreign_key_graph' =
                      WithForeignKeyEdges(foreign_key_graph, columns,
                                          source_column_id, dest_column_id)
                 /\ schema_dict' = [ schema_dict EXCEPT !.foreign_keys =
                                       Append(@, << source_column_id, dest_column_id >>) ]
                 /\ UNCHANGED << pc, error >>
    /\ UNCHANGED << limits, path_idx, dict_idx, seen_ids, tables, schemas,
                    eval_foreign_key_maps, returned >>

\* StoreSchema without the assert of line 113
StoreSchemaUnchecked ==
    /\ pc = "foreign_keys"
    /\ schemas' = Put(schemas, schema_dict.db_id,
                      Schema(schema_dict.db_id, tables, columns,
                             foreign_key_graph, schema_dict))
    /\ eval_foreign_key_maps' = Put(eval_foreign_key_maps, schema_dict.db_id,
                                    build_foreign_key_map(schema_dict))
    /\ pc' = "dicts"
    /\ UNCHANGED << limits, error, path_idx, dict_idx, seen_ids, schema_dict, tables,
                    columns, foreign_key_graph, returned, bad_index >>

\* lines 112-117: foreign_keys is exhausted; the schema is registered
StoreSchema ==
    /\ pc = "foreign_keys"
    /\ IF HasKey(schemas, schema_dict.db_id)
       THEN /\ Raise("AssertionError")
            /\ UNCHANGED << schemas, eval_foreign_key_maps >>
       ELSE /\ schemas' = Put(schemas, schema_dict.db_id,
                              Schema(schema_dict.db_id, tables, columns,
                                     foreign_key_graph, schema_dict))
            /\ eval_foreign_key_maps' = Put(eval_foreign_key_maps, schema_dict.db_id,
                                            build_foreign_key_map(schema_dict))
            /\ pc' = "dicts"
            /\ UNCHANGED error
    /\ UNCHANGED << limits, path_idx, dict_idx, seen_ids, schema_dict, tables, columns,
                    foreign_key_graph, returned, bad_index >>

\* line 119: `paths` is exhausted
Return ==
    /\ pc = "paths"
    /\ pc' = "returned"
    /\ returned' = Some([ schemas |-> schemas,
                          eval_foreign_key_maps |-> eval_foreign_key_maps ])
    /\ UNCHANGED << limits, error, path_idx, dict_idx, seen_ids, schema_dict, tables,
                    columns, foreign_key_graph, schemas, eval_foreign_key_maps, bad_index >>

LoadTablesStep ==
    \/ OpenPath
    \/ EndOfFile
    \/ /\ pc = "dicts"
       /\ \E db_id \in limits.db_ids, num_tables \in 1 .. limits.tables :
            \E column_names \in SeqsUpTo((-1) .. (limits.tables - 1), limits.cols) :
               BuildTablesAndColumns(db_id, num_tables, column_names)
    \/ \E column_id \in IndexValues(Len(columns)) : RegisterPrimaryKey(column_id)
    \/ EndPrimaryKeys
    \/ \E s \in IndexValues(Len(columns)), d \in IndexValues(Len(columns)) :
         RegisterForeignKey(s, d)
    \/ StoreSchema
    \/ Return

\* One schema file holding one descriptor, of any shape within the bounds.
SchemaLimits == [ paths |-> 1, dicts |-> 1, db_ids |-> { "d1" },
                  tables |-> MaxTables, cols |-> MaxCols, keys |-> MaxKeys ]

\* Several schema files of several descriptors, each of one table, at most
\* one column and at most one key entry.
LoadLimits == [ paths |-> MaxPaths, dicts |-> MaxDicts, db_ids |-> DbIds,
                tables |-> 1, cols |-> 1, keys |-> 1 ]

datasetVars == << d_pc, d_error, self_schemas, self_eval_foreign_key_maps, examples,
                  example_path_idx, entries_read >>

metricsVars == << results, scores, report, calls, calls_ok, last_call, eval_log >>

vars == << loadVars, datasetVars, metricsVars >>

\* ---------------------------------------------------- SpiderDataset.__init__
\* lines 11-17
SpiderItem(text, code, schema, orig, orig_schema) ==
    [ text |-> text, code |-> code, schema |-> schema, orig |-> orig,
      orig_schema |-> orig_schema ]

\* lines 125-129: load_tables has returned; its results are kept
AssignSchemas ==
    /\ d_pc = "load_tables"
    /\ pc = "returned"
    /\ self_schemas' = returned[1].schemas
    /\ self_eval_foreign_key_maps' = returned[1].eval_foreign_key_maps
    /\ examples' = << >>
    /\ d_pc' = "paths"
    /\ UNCHANGED << d_error, example_path_idx, entries_read >>

\* lines 131-132: the next path of `paths` is opened and parsed
OpenExamplePath ==
    /\ d_pc = "paths"
    /\ example_path_idx < MaxPaths
    /\ example_path_idx' = example_path_idx + 1
    /\ entries_read' = Append(entries_read, << >>)
    /\ d_pc' = "entries"
    /\ UNCHANGED << d_error, self_schemas, self_eval_foreign_key_maps, examples >>

\* AppendExample with the item put at the front of self.examples
AppendExampleFront(entry) ==
    /\ d_pc = "entries"
    /\ Len(Flatten(entries_read)) < MaxExamples
    /\ entries_read' = [ entries_read EXCEPT ![example_path_idx] = Append(@, entry) ]
    /\ IF ~HasKey(self_schemas, entry.db_id)
       THEN /\ d_pc' = "raised"
            /\ d_error' = Some("KeyError")
            /\ UNCHANGED examples
       ELSE /\ examples' = << SpiderItem(entry.question_toks, entry.sql,
                                         Get(self_schemas, entry.db_id), entry,
                                         Get(self_schemas, entry.db_id).orig) >> \o examples
            /\ UNCHANGED << d_pc, d_error >>
    /\ UNCHANGED << self_schemas, self_eval_foreign_key_maps, example_path_idx >>

\* lines 133-141: one record of the open file becomes an item;
\* self.schemas[entry["db_id"]] raises KeyError for an unknown id
AppendExample(entry) ==
    /\ d_pc = "entries"
    /\ Len(Flatten(entries_read)) < MaxExamples
    /\ entries_read' = [ entries_read EXCEPT ![example_path_idx] = Append(@, entry) ]
    /\ IF ~HasKey(self_schemas, entry.db_id)
       THEN /\ d_pc' = "raised"
            /\ d_error' = Some("KeyError")
            /\ UNCHANGED examples
       ELSE /\ examples' = Append(examples,
                                  SpiderItem(entry.question_toks, entry.sql,
                                             Get(self_schemas, entry.db_id), entry,
                                             Get(self_schemas, entry.db_id).orig))
            /\ UNCHANGED << d_pc, d_error >>
    /\ UNCHANGED << self_schemas, self_eval_foreign_key_maps, example_path_idx >>

\* line 133: the open example file has no further record
EndOfExamples ==
    /\ d_pc = "entries"
    /\ d_pc' = "paths"
    /\ UNCHANGED << d_error, self_schemas, self_eval_foreign_key_maps, examples,
                    example_path_idx, entries_read >>

\* line 131: `paths` is exhausted; __init__ returns
Constructed ==
    /\ d_pc = "paths"
    /\ d_pc' = "constructed"
    /\ UNCHANGED << d_error, self_schemas, self_eval_foreign_key_maps, examples,
                    example_path_idx, entries_read >>

\* lines 143-144
DatasetLen == Len(examples)

\* lines 146-147, for idx in 0 .. len-1
DatasetGetItem(idx) == examples[idx + 1]

\* Example records: question tokens, gold query and database id.
Entries ==
    { [ db_id |-> d, question_toks |-> q.question_toks, sql |-> q.sql ] :
        d \in DbIds,
        q \in { [ question_toks |-> "q1", sql |-> "s1" ],
                [ question_toks |-> "q2", sql |-> "s2" ] } }

DatasetStep ==
    \/ AssignSchemas
    \/ OpenExamplePath
    \/ \E entry \in Entries : AppendExample(entry)
    \/ EndOfExamples
    \/ Constructed

\* load_tables on one descriptor, start to finish (lines 57-116)
RECURSIVE PrimaryKeysFrom(_, _, _, _)
PrimaryKeysFrom(tbls, cols, keys, k) ==
    IF k > Len(keys) THEN tbls
    ELSE PrimaryKeysFrom(WithPrimaryKey(tbls, cols, keys[k]), cols, keys, k + 1)

RECURSIVE ForeignKeysFrom(_, _, _)
ForeignKeysFrom(cols, fks, k) ==
    IF k > Len(fks) THEN cols
    ELSE ForeignKeysFrom(WithForeignKey(cols, fks[k][1], fks[k][2]), fks, k + 1)

RECURSIVE ForeignKeyGraphFrom(_, _, _, _)
ForeignKeyGraphFrom(g, cols, fks, k) ==
    IF k > Len(fks) THEN g
    ELSE ForeignKeyGraphFrom(WithForeignKeyEdges(g, cols, fks[k][1], fks[k][2]),
                             cols, fks, k + 1)

LoadSchema(d) ==
    LET cols == BuildColumns(d.column_names)
        tbls == LinkColumns(BuildTables(d.num_tables), cols, 1)
    IN  Schema(d.db_id,
               PrimaryKeysFrom(tbls, cols, d.primary_keys, 1),
               ForeignKeysFrom(cols, d.foreign_keys, 1),
               ForeignKeyGraphFrom(EmptyDiGraph, cols, d.foreign_keys, 1),
               d)

\* Schema descriptors the example loader is run against: one table with a
\* wildcard column and a primary key, and two tables joined by a foreign key.
SampleDict(db_id) ==
    IF db_id = "d1"
    THEN [ db_id |-> db_id, num_tables |-> 1, column_names |-> << -1, 0 >>,
           primary_keys |-> << 1 >>, foreign_keys |-> << >> ]
    ELSE [ db_id |-> db_id, num_tables |-> 2, column_names |-> << -1, 0, 1 >>,
           primary_keys |-> << 1 >>, foreign_keys |-> << << 2, 1 >> >> ]

\* What load_tables returns for files holding the sample descriptors of ids
RECURSIVE LoadedFrom(_)
LoadedFrom(ids) ==
    IF ids = << >>
    THEN [ schemas |-> << >>, eval_foreign_key_maps |-> << >> ]
    ELSE LET before == LoadedFrom(SubSeq(ids, 1, Len(ids) - 1))
             d == SampleDict(ids[Len(ids)])
         IN  [ schemas |-> Put(before.schemas, d.db_id, LoadSchema(d)),
               eval_foreign_key_maps |->
                 Put(before.eval_foreign_key_maps, d.db_id, build_foreign_key_map(d)) ]

\* ------------------------------------------------- SpiderDataset.Metrics
\* dataset.add_underscore: every blank of the token becomes an underscore
add_underscore(tok) == [ i \in 1 .. Len(tok) |-> IF tok[i] = " " THEN "_" ELSE tok[i] ]

\* The item the metrics are fed: its first gold token has a blank in it
Items ==
    { [ schema |-> [ db_id |-> "d1" ],
        orig |-> [ query_toks |-> << << "a", " ", "b" >>, << "c" >> >> ] ] }

Codes == { "c1", "c2" }

Questions == { None, Some("q") }

\* The candidate lists a beam may be
Beams == SeqsUpTo(Codes, MaxBeam)

\* Evaluator.evaluate_one: the verdict is an opaque value of its arguments
evaluate_one(db_id, gold, predicted) ==
    [ db_id |-> db_id, gold |-> gold, predicted |-> predicted, orig_question |-> None ]

\* Evaluator.isValidSQL under the evaluator's judgement `valid`
isValidSQL(code, db_id, valid) == code \in valid

IsValidCall(code, db_id) ==
    [ method |-> "isValidSQL", db_id |-> db_id, gold |-> << >>, code |-> code ]

EvaluateCall(db_id, gold, code) ==
    [ method |-> "evaluate_one", db_id |-> db_id, gold |-> gold, code |-> code ]

\* BeamLoop without the break of line 190
RECURSIVE BeamLoopNoBreak(_, _, _, _, _)
BeamLoopNoBreak(inferred_codes, i, valid, db_id, query_toks_w) ==
    IF i > Len(inferred_codes) THEN [ log |-> << >>, ret_dict |-> None ]
    ELSE LET code == inferred_codes[i]
             rest == BeamLoopNoBreak(inferred_codes, i + 1, valid, db_id, query_toks_w)
         IN  IF isValidSQL(code, db_id, valid)
             THEN [ log |-> << IsValidCall(code, db_id),
                               EvaluateCall(db_id, query_toks_w, code) >> \o rest.log,
                    ret_dict |-> IF rest.ret_dict = None
                                 THEN Some(evaluate_one(db_id, query_toks_w, code))
                                 ELSE rest.ret_dict ]
             ELSE [ log |-> << IsValidCall(code, db_id) >> \o rest.log,
                    ret_dict |-> rest.ret_dict ]

\* lines 180-190: the loop over the candidates, from candidate i on
RECURSIVE BeamLoop(_, _, _, _, _)
BeamLoop(inferred_codes, i, valid, db_id, query_toks_w) ==
    IF i > Len(inferred_codes) THEN [ log |-> << >>, ret_dict |-> None ]
    ELSE LET code == inferred_codes[i]
         IN  IF isValidSQL(code, db_id, valid)
             THEN [ log |-> << IsValidCall(code, db_id),
                               EvaluateCall(db_id, query_toks_w, code) >>,
                    ret_dict |-> Some(evaluate_one(db_id, query_toks_w, code)) ]
             ELSE LET rest == BeamLoop(inferred_codes, i + 1, valid, db_id, query_toks_w)
                  IN  [ log |-> << IsValidCall(code, db_id) >> \o rest.log,
                        ret_dict |-> rest.ret_dict ]

\* AllFailed falling back on the last candidate instead of the first
AllFailedLast(loop, inferred_codes, db_id, query_toks_w) ==
    IF loop.ret_dict # None
    THEN [ raised |-> FALSE, log |-> loop.log, ret_dict |-> loop.ret_dict ]
    ELSE IF inferred_codes = << >>
         THEN [ raised |-> TRUE, log |-> loop.log, ret_dict |-> None ]
         ELSE [ raised |-> FALSE,
                log |-> Append(loop.log,
                               EvaluateCall(db_id, query_toks_w,
                                            inferred_codes[Len(inferred_codes)])),
                ret_dict |-> Some(evaluate_one(db_id, query_toks_w,
                                               inferred_codes[Len(inferred_codes)])) ]

\* AllFailed evaluating an empty prediction when there is no candidate
AllFailedUnguarded(loop, inferred_codes, db_id, query_toks_w) ==
    IF loop.ret_dict # None
    THEN [ raised |-> FALSE, log |-> loop.log, ret_dict |-> loop.ret_dict ]
    ELSE LET first == IF inferred_codes = << >> THEN "" ELSE inferred_codes[1]
         IN  [ raised |-> FALSE,
               log |-> Append(loop.log, EvaluateCall(db_id, query_toks_w, first)),
               ret_dict |-> Some(evaluate_one(db_id, query_toks_w, first)) ]

\* lines 193-196: no candidate was valid; inferred_codes[0] raises
\* IndexError on an empty list, before evaluate_one is entered
AllFailed(loop, inferred_codes, db_id, query_toks_w) ==
    IF loop.ret_dict # None
    THEN [ raised |-> FALSE, log |-> loop.log, ret_dict |-> loop.ret_dict ]
    ELSE IF inferred_codes = << >>
         THEN [ raised |-> TRUE, log |-> loop.log, ret_dict |-> None ]
         ELSE [ raised |-> FALSE,
                log |-> Append(loop.log,
                               EvaluateCall(db_id, query_toks_w, inferred_codes[1])),
                ret_dict |-> Some(evaluate_one(db_id, query_toks_w, inferred_codes[1])) ]

\* lines 171-172 and 198-199
Annotate(ret_dict, orig_question) ==
    IF orig_question # None
    THEN [ ret_dict EXCEPT !.orig_question = orig_question ]
    ELSE ret_dict

\* Record with the verdict put at the front of results
RecordFront(rs, ret_dict) == << ret_dict >> \o rs

\* lines 174 and 201
Record(rs, ret_dict) == Append(rs, ret_dict)

Evaluations(log) == Cardinality({ i \in 1 .. Len(log) : log[i].method = "evaluate_one" })

\* finalize() returns a dict holding self.results itself, not a copy
Aliased(rep, rs, sc) ==
    IF rep = None THEN None ELSE Some([ per_item |-> rs, total_scores |-> sc ])

NoCall == [ op |-> "", item |-> << >>, inferred_codes |-> << >>, valid |-> { },
            orig_question |-> None, outcome |-> "" ]

\* lines 162-174
AddOne(item, inferred_code, orig_question) ==
    /\ calls < MaxCalls
    /\ LET ret_dict == evaluate_one(item.schema.db_id, item.orig.query_toks, inferred_code)
           counted == [ scores EXCEPT !.evaluated = @ + 1 ]
       IN  /\ results' = Record(results, Annotate(ret_dict, orig_question))
           /\ scores' = counted
           /\ report' = Aliased(report, results', counted)
           /\ eval_log' = << EvaluateCall(item.schema.db_id, item.orig.query_toks,
                                          inferred_code) >>
    /\ calls' = calls + 1
    /\ calls_ok' = calls_ok + 1
    /\ last_call' = [ op |-> "add_one", item |-> Some(item),
                      inferred_codes |-> << inferred_code >>, valid |-> { },
                      orig_question |-> orig_question, outcome |-> "ok" ]

\* lines 176-201
AddBeams(item, inferred_codes, orig_question, valid) ==
    /\ calls < MaxCalls
    /\ LET query_toks_w == [ i \in 1 .. Len(item.orig.query_toks) |->
                               add_underscore(item.orig.query_toks[i]) ]
           loop == BeamLoop(inferred_codes, 1, valid, item.schema.db_id, query_toks_w)
           done == AllFailed(loop, inferred_codes, item.schema.db_id, query_toks_w)
           counted == [ scores EXCEPT !.evaluated = @ + Evaluations(done.log) ]
       IN  /\ eval_log' = done.log
           /\ scores' = counted
           /\ IF done.raised
              THEN /\ UNCHANGED << results, calls_ok >>
                   /\ report' = Aliased(report, results, counted)
              ELSE /\ results' = Record(results, Annotate(done.ret_dict[1], orig_question))
                   /\ calls_ok' = calls_ok + 1
                   /\ report' = Aliased(report, results', counted)
           /\ last_call' = [ op |-> "add_beams", item |-> Some(item),
                             inferred_codes |-> inferred_codes, valid |-> valid,
                             orig_question |-> orig_question,
                             outcome |-> IF done.raised THEN "IndexError" ELSE "ok" ]
    /\ calls' = calls + 1

\* lines 203-206
Finalize ==
    /\ scores' = [ scores EXCEPT !.finalized = TRUE ]
    /\ report' = Some([ per_item |-> results, total_scores |-> scores' ])
    /\ last_call' = [ NoCall EXCEPT !.op = "finalize", !.outcome = "ok" ]
    /\ eval_log' = << >>
    /\ UNCHANGED << results, calls, calls_ok >>

MetricsStep ==
    \/ \E item \in Items, inferred_code \in Codes, orig_question \in Questions :
         AddOne(item, inferred_code, orig_question)
    \/ /\ calls < MaxCalls
       /\ \E item \in Items, inferred_codes \in Beams :
            \E orig_question \in Questions, valid \in SUBSET Codes :
               AddBeams(item, inferred_codes, orig_question, valid)
    \/ Finalize

\* ------------------------------------------------------------ specifications
\* lines 125-127, before load_tables is called
InitDataset ==
    /\ d_pc = "load_tables"
    /\ d_error = None
    /\ self_schemas = << >>
    /\ self_eval_foreign_key_maps = << >>
    /\ examples = << >>
    /\ example_path_idx = 0
    /\ entries_read = << >>

\* lines 150-160: Metrics.__init__
InitMetrics ==
    /\ results = << >>
    /\ scores = [ evaluated |-> 0, finalized |-> FALSE ]
    /\ report = None
    /\ calls = 0
    /\ calls_ok = 0
    /\ last_call = NoCall
    /\ eval_log = << >>

InitSchema == InitLoad(SchemaLimits) /\ InitDataset /\ InitMetrics

InitLoadTables == InitLoad(LoadLimits) /\ InitDataset /\ InitMetrics

\* load_tables has returned the schemas of some schema files
InitExamples ==
    /\ limits = LoadLimits
    /\ \E ids \in { s \in SeqsUpTo(DbIds, Cardinality(DbIds)) : NoRepeat(s) } :
         /\ schemas = LoadedFrom(ids).schemas
         /\ eval_foreign_key_maps = LoadedFrom(ids).eval_foreign_key_maps
         /\ returned = Some(LoadedFrom(ids))
         /\ seen_ids = << ids >>
         /\ path_idx = 1
         /\ dict_idx = Len(ids)
    /\ pc = "returned"
    /\ error = None
    /\ schema_dict = EmptyDict
    /\ tables = << >>
    /\ columns = << >>
    /\ foreign_key_graph = EmptyDiGraph
    /\ bad_index = FALSE
    /\ InitDataset
    /\ InitMetrics

InitRecording == InitLoad(LoadLimits) /\ InitDataset /\ InitMetrics

NextLoad == LoadTablesStep /\ UNCHANGED << datasetVars, metricsVars >>

NextDataset == DatasetStep /\ UNCHANGED << loadVars, metricsVars >>

NextMetrics == MetricsStep /\ UNCHANGED << loadVars, datasetVars >>

SpecSchema == InitSchema /\ [][NextLoad]_vars

SpecLoad == InitLoadTables /\ [][NextLoad]_vars

SpecDataset == InitExamples /\ [][NextDataset]_vars

SpecMetrics == InitRecording /\ [][NextMetrics]_vars

\* ------------------------------------------------- properties: load_tables
Reversed(pair) == << pair[2], pair[1] >>

Occurrences(seq, x) == Cardinality({ i \in 1 .. Len(seq) : seq[i] = x })

Increasing(seq) == \A i, j \in 1 .. Len(seq) : i < j => seq[i] < seq[j]

PlainForeignKeys(d) ==
    \A i \in 1 .. Len(d.foreign_keys) : d.foreign_keys[i][1] >= 0 /\ d.foreign_keys[i][2] >= 0

\* C1: in every schema load_tables has registered, the foreign-key graph
\* holds an edge A->B labelled (x, y) exactly if it holds the edge B->A
\* labelled (y, x).  Stated for descriptors whose foreign-key indices are all
\* non-negative, a case the claim covers.
C1_EdgesSymmetric ==
    \A sch \in Values(schemas) :
        PlainForeignKeys(sch.orig) =>
            \A e \in sch.foreign_key_graph :
                \E r \in sch.foreign_key_graph :
                    r.u = e.v /\ r.v = e.u /\ r.columns = Reversed(e.columns)

\* C2: in every registered schema, a column whose table index is
\* non-negative references that table and appears exactly once in its
\* column list and in no other table's list, each table's columns are in
\* descriptor order, and a column whose table index is negative has table
\* None and appears in no table's list.
C2_ColumnsLinked ==
    \A sch \in Values(schemas) :
        /\ Len(sch.columns) = Len(sch.orig.column_names)
        /\ \A i \in 1 .. Len(sch.columns) :
             LET c == sch.columns[i]
                 table_id == sch.orig.column_names[i]
             IN  /\ c.id = i - 1
                 /\ \A t \in 1 .. Len(sch.tables) :
                      Occurrences(sch.tables[t].columns, c.id)
                        = IF table_id = t - 1 THEN 1 ELSE 0
                 /\ c.table = IF table_id >= 0 THEN Some(table_id) ELSE None
        /\ \A t \in 1 .. Len(sch.tables) : Increasing(sch.tables[t].columns)

C2_Witness ==
    \E sch \in Values(schemas) :
        /\ Len(sch.tables) = 2
        /\ sch.orig.column_names = << 1, 1 >>
        /\ sch.tables[2].columns = << 0, 1 >>

\* C3: a database id read a second time, in the same file or a later one,
\* ends the load in an exception: nothing is returned and no registered
\* schema is ever replaced or changed; when load_tables returns, all ids
\* read are distinct and both returned mappings have exactly them as keys.
C3_DuplicateIdsAbort ==
    /\ [](/\ ~NoRepeat(Flatten(seen_ids)) =>
               (pc \in { "primary_keys", "foreign_keys", "raised" } /\ returned = None)
          /\ pc = "returned" =>
               /\ NoRepeat(Flatten(seen_ids))
               /\ Keys(returned[1].schemas) = Elements(Flatten(seen_ids))
               /\ Keys(returned[1].eval_foreign_key_maps) = Elements(Flatten(seen_ids))
               /\ Len(returned[1].schemas) = Len(Flatten(seen_ids)))
    /\ [][\A k \in Keys(schemas) :
            HasKey(schemas', k) /\ Get(schemas', k) = Get(schemas, k)]_vars

C3_Witness ==
    /\ pc = "raised"
    /\ error = Some("AssertionError")
    /\ Len(seen_ids) = 2
    /\ Len(seen_ids[2]) = 2
    /\ seen_ids[2][2] \in Elements(seen_ids[1])

\* C7: a primary-key or foreign-key index outside 0 .. n-1 (n the number of
\* columns), negative indices included, makes load_tables fail: once such an
\* index has been read the load has ended in an exception.
C7_BadIndexFails == bad_index => pc = "raised"

\* C9 as claimed: in every registered schema, for every declared pair the
\* source column's foreign_key_for is the pair's destination column, and a
\* column that is the source of no pair has foreign_key_for None.  Stated
\* for descriptors whose foreign-key indices are all non-negative.
C9_EveryPairLinked ==
    \A sch \in { x \in Values(schemas) : PlainForeignKeys(x.orig) } :
        LET n == Len(sch.columns)
            fks == sch.orig.foreign_keys
        IN  /\ \A i \in 1 .. Len(fks) :
                 sch.columns[Resolve(n, fks[i][1]) + 1].foreign_key_for
                   = Some(Resolve(n, fks[i][2]))
            /\ \A c \in 1 .. n :
                 (\A i \in 1 .. Len(fks) : Resolve(n, fks[i][1]) # c - 1)
                   => sch.columns[c].foreign_key_for = None

\* C9 amended: the source column's foreign_key_for is the destination column
\* of the last declared pair that has this source column; a column that is
\* the source of no pair has foreign_key_for None.
C9_LastPairLinked ==
    \A sch \in Values(schemas) :
        LET n == Len(sch.columns)
            fks == sch.orig.foreign_keys
        IN  \A c \in 1 .. n :
                LET from == { i \in 1 .. Len(fks) : Resolve(n, fks[i][1]) = c - 1 }
                IN  sch.columns[c].foreign_key_for
                      = IF from = { } THEN None
                        ELSE Some(Resolve(n, fks[CHOOSE i \in from : \A j \in from : j <= i][2]))

C9_Witness ==
    \E sch \in Values(schemas) :
        LET fks == sch.orig.foreign_keys
        IN  /\ Len(fks) = 2
            /\ fks[1][1] = fks[2][1]
            /\ fks[1][2] # fks[2][2]
            /\ fks[1][1] >= 0 /\ fks[1][2] >= 0 /\ fks[2][2] >= 0

\* --------------------------------------------- properties: SpiderDataset
\* C8: while every record read names a registered database id, the dataset
\* holds one item per record read, in file-then-record order, each with the
\* schema registered under the record's id and that schema's raw descriptor
\* as orig_schema; a record naming an unregistered id ends construction in
\* KeyError, and no dataset is ever constructed after it.
C8_ItemsInOrder ==
    LET read == Flatten(entries_read)
    IN  /\ d_pc \in { "paths", "entries", "constructed" } =>
             /\ DatasetLen = Len(read)
             /\ \A idx \in 0 .. (DatasetLen - 1) :
                  LET item == DatasetGetItem(idx)
                      entry == read[idx + 1]
                  IN  /\ item.orig = entry
                      /\ item.text = entry.question_toks
                      /\ item.code = entry.sql
                      /\ HasKey(self_schemas, entry.db_id)
                      /\ item.schema = Get(self_schemas, entry.db_id)
                      /\ item.schema.db_id = entry.db_id
                      /\ item.orig_schema = Get(self_schemas, entry.db_id).orig
        /\ (\E i \in 1 .. Len(read) : ~HasKey(self_schemas, read[i].db_id)) =>
             (d_pc = "raised" /\ d_error = Some("KeyError"))

C8_Witness ==
    /\ d_pc = "constructed"
    /\ Len(entries_read) = 2
    /\ Len(entries_read[1]) = 1
    /\ Len(entries_read[2]) = 2
    /\ DatasetLen = 3
    /\ DatasetGetItem(0).schema.db_id # DatasetGetItem(1).schema.db_id
    /\ DatasetGetItem(1).text # DatasetGetItem(2).text

\* ------------------------------------------------- properties: Metrics
\* w is the underscore-normalized form of the gold tokens toks
UnderscoreForm(w, toks) ==
    /\ Len(w) = Len(toks)
    /\ \A i \in 1 .. Len(toks) :
         /\ Len(w[i]) = Len(toks[i])
         /\ \A j \in 1 .. Len(toks[i]) :
              w[i][j] = IF toks[i][j] = " " THEN "_" ELSE toks[i][j]

SomeValid(call) ==
    \E i \in 1 .. Len(call.inferred_codes) : call.inferred_codes[i] \in call.valid

FirstValid(call) ==
    CHOOSE i \in 1 .. Len(call.inferred_codes) :
        /\ call.inferred_codes[i] \in call.valid
        /\ \A j \in 1 .. (i - 1) : call.inferred_codes[j] \notin call.valid

\* C4: when add_beams was called with a candidate list holding a valid
\* candidate, the evaluator was asked isValidSQL about the candidates up to
\* the first valid one, in order, then evaluate_one once, on that candidate
\* with the underscore-normalized gold tokens, and nothing else.
C4_FirstValidEvaluated ==
    (last_call.op = "add_beams" /\ SomeValid(last_call)) =>
        LET k == FirstValid(last_call)
            codes == last_call.inferred_codes
            item == last_call.item[1]
        IN  /\ last_call.outcome = "ok"
            /\ Len(eval_log) = k + 1
            /\ \A j \in 1 .. k :
                 /\ eval_log[j].method = "isValidSQL"
                 /\ eval_log[j].code = codes[j]
                 /\ eval_log[j].db_id = item.schema.db_id
            /\ eval_log[k + 1].method = "evaluate_one"
            /\ eval_log[k + 1].code = codes[k]
            /\ eval_log[k + 1].db_id = item.schema.db_id
            /\ UnderscoreForm(eval_log[k + 1].gold, item.orig.query_toks)

C4_Witness ==
    /\ last_call.op = "add_beams"
    /\ Len(last_call.inferred_codes) = 3
    /\ last_call.inferred_codes[1] \notin last_call.valid
    /\ last_call.inferred_codes[2] \in last_call.valid
    /\ last_call.inferred_codes[3] \in last_call.valid
    /\ last_call.item[1].schema.db_id = "d1"
    /\ Len(eval_log) = 3

AddBeamsCalled == calls' = calls + 1 /\ last_call'.op = "add_beams"

\* C5: a call of add_beams with a non-empty candidate list returns and
\* appends exactly one verdict to results; when no candidate is valid the
\* verdict is that of the first candidate against the underscore-normalized
\* gold tokens, annotated if a question was given, and evaluate_one was
\* invoked exactly once.
C5_OneVerdictPerBeam ==
    [][(AddBeamsCalled /\ last_call'.inferred_codes # << >>) =>
         /\ last_call'.outcome = "ok"
         /\ Len(results') = Len(results) + 1
         /\ SubSeq(results', 1, Len(results)) = results
         /\ ~SomeValid(last_call') =>
              LET verdict == results'[Len(results')]
                  item == last_call'.item[1]
              IN  /\ Evaluations(eval_log') = 1
                  /\ verdict.predicted = last_call'.inferred_codes[1]
                  /\ verdict.db_id = item.schema.db_id
                  /\ UnderscoreForm(verdict.gold, item.orig.query_toks)
                  /\ verdict.orig_question = last_call'.orig_question]_vars

C5_Witness ==
    /\ last_call.op = "add_beams"
    /\ last_call.outcome = "ok"
    /\ Len(last_call.inferred_codes) = 2
    /\ last_call.inferred_codes[1] # last_call.inferred_codes[2]
    /\ last_call.valid = { }
    /\ last_call.item[1].schema.db_id = "d1"
    /\ Len(results) = 2

LastVerdict(log) ==
    evaluate_one(log[Len(log)].db_id, log[Len(log)].gold, log[Len(log)].code)

C10_EmptyBeamRaises ==
    /\ [][(AddBeamsCalled /\ last_call'.inferred_codes = << >>) =>
            /\ last_call'.outcome = "IndexError"
            /\ eval_log' = << >>
            /\ results' = results
            /\ scores' = scores
            /\ report' = report]_vars
    /\ [](Len(results) = calls_ok)

C10_Witness ==
    /\ last_call.op = "add_beams"
    /\ last_call.inferred_codes = << >>
    /\ last_call.outcome = "IndexError"
    /\ report # None
    /\ Len(results) = 1
====
